---- MODULE Spec2Model ----
(***************************************************************************)
(* go-iden3-core as state machines, one specification per component:       *)
(*   Spec       the ID / DID codec (package core, did.go in its two        *)
(*              revisions): the inputs of a call are drawn in Init, every  *)
(*              exported function is one action storing what it returns;   *)
(*   PoWSpec    CheckPoW and the PoW search loop (package utils);          *)
(*   TimeSpec   VerifyTimestamp against a clock (package utils);           *)
(*   NonceSpec  the store of single-use challenge nonces;                  *)
(*   ClientSpec CallAuth, Deploy and WaitReceipt of the eth client.        *)
(* Texts (Go strings) are sequences of one-character strings, byte arrays  *)
(* are sequences of numbers in 0..255.  The variables of the components a  *)
(* specification is not about stay at rest in it.                          *)
(***************************************************************************)
EXTENDS Integers, Sequences, FiniteSets, TLC

VARIABLES
    id,     \* the ID a call is made on (an argument, or the ID a call returned)
    did,    \* the DID a call is made on
    addr,   \* the 20-byte chain address an ID is derived from
    typ,    \* the two type bytes an ID is built with
    req,    \* the (method, blockchain, network) a type is asked for
    pc,     \* what has been called so far
    out     \* what the last call returned

VARIABLES
    phash,       \* PoW: the hash CheckPoW is called on / of the data tried last
    hashes,      \* PoW: the hash of the data after k increments of its nonce
    difficulty,  \* PoW: the difficulty asked for
    data,        \* PoW: the data held by PoW, as the number of IncrementNonce calls
    ppc,         \* PoW: position of the call
    pout         \* PoW: what the call returned

VARIABLES
    now,         \* time: the clock, in units of 10 ns since the epoch
    timestamp,   \* time: the timestamp VerifyTimestamp is called on, in seconds
    timelimit,   \* time: the limit it is called with, in seconds
    tpc,         \* time: position of the call
    tout         \* time: what the call returned

VARIABLES
    store,       \* nonces: the entries of the nonce store
    issued,      \* nonces: every nonce issued so far
    ntime,       \* nonces: the clock of the store, in seconds
    calls        \* nonces: the ConsumeChallenge call of each caller

VARIABLES
    account,         \* client: c.account, nil or an account
    ReceiptTimeout,  \* client: c.ReceiptTimeout, in polling intervals (200 ms)
    ccall,           \* client: the method called on the client
    cpc,             \* client: position of the call
    contractData,    \* client: the ContractData of Deploy
    tx,              \* client: the transaction held by Deploy / given to WaitReceipt
    receipt,         \* client: the receipt held by WaitReceipt
    werr,            \* client: the err held by WaitReceipt
    since,           \* client: time.Since(start), in polling intervals
    made,            \* client: the calls made so far, counted
    cout,            \* client: what CallAuth returned
    wout,            \* client: what WaitReceipt returned
    dout             \* client: what Deploy returned

codecVars == <<id, did, addr, typ, req, pc, out>>

powVars == <<phash, hashes, difficulty, data, ppc, pout>>

timeVars == <<now, timestamp, timelimit, tpc, tout>>

nonceVars == <<store, issued, ntime, calls>>

clientVars ==
    <<account, ReceiptTimeout, ccall, cpc, contractData, tx, receipt, werr,
      since, made, cout, wout, dout>>

vars == <<codecVars, powVars, timeVars, nonceVars, clientVars>>

-----------------------------------------------------------------------------
(* Bounds of the model                                                     *)

\* number of distinct non-zero byte values used to fill genesis / address bytes
MaxFill == 2

\* number of extra ID segments a DID under test carries in front of its ID text
MaxPrefix == 3

-----------------------------------------------------------------------------
(* Bytes and texts                                                         *)

genesisLn == 27

idLn == 31

addrLn == 20

reservedLn == 7

Zeros(n) == [i \in 1..n |-> 0]

\* the sum of b[lo..hi]
RECURSIVE SumRange(_, _, _)
SumRange(b, lo, hi) ==
    IF lo > hi THEN 0
    ELSE IF lo = hi THEN b[lo]
    ELSE LET mid == (lo + hi) \div 2
         IN  SumRange(b, lo, mid) + SumRange(b, mid + 1, hi)

SumBytes(b) == SumRange(b, 1, Len(b))

RECURSIVE Join(_, _)
Join(parts, sep) ==
    IF parts = <<>> THEN <<>>
    ELSE IF Len(parts) = 1 THEN parts[1]
    ELSE parts[1] \o sep \o Join(Tail(parts), sep)

\* strings.Split-like: the segments of text between occurrences of the character sep
Split(text, sep) ==
    LET seps   == {k \in 1..Len(text) : text[k] = sep}
        n      == Cardinality(seps) + 1
        nth(j) == CHOOSE p \in seps : Cardinality({q \in seps : q < p}) = j - 1
    IN  [j \in 1..n |->
            SubSeq(text, IF j = 1 THEN 1 ELSE nth(j - 1) + 1,
                         IF j = n THEN Len(text) ELSE nth(j) - 1)]

Colon == <<":">>

\* fmt's %v of a uint8: its decimal digits
DigitChars == <<"0", "1", "2", "3", "4", "5", "6", "7", "8", "9">>

RECURSIVE Decimal(_)
Decimal(n) ==
    IF n < 10 THEN <<DigitChars[n + 1]>>
    ELSE Decimal(n \div 10) \o <<DigitChars[(n % 10) + 1]>>

-----------------------------------------------------------------------------
(* Errors: a Go error value is the sentinel it wraps plus its message      *)

Nil == [is |-> "nil", msg |-> ""]

Err(sentinel, message) == [is |-> sentinel, msg |-> message]

\* errors.Is(e, sentinel)
ErrorsIs(e, sentinel) == e.is = sentinel

ErrUnsupportedID == "ErrUnsupportedID"

ErrIncorrectDID == "ErrIncorrectDID"

ErrMethodUnknown == "ErrMethodUnknown"

ErrDIDMethodNotSupported == "ErrDIDMethodNotSupported"

ErrBlockchainNotSupportedForDID == "ErrBlockchainNotSupportedForDID"

ErrNetworkNotSupportedForDID == "ErrNetworkNotSupportedForDID"

ErrInvalidDID == "ErrInvalidDID"

ErrMalformedEncoding == "ErrMalformedEncoding"

ErrEthAddress == "ErrEthAddress"

-----------------------------------------------------------------------------
(* ID: [type:2][genesis:27][checksum:2], and its base58 text               *)

\* Checksum(typeBytes, genesisBytes): little-endian 16-bit sum of the 29 bytes
CalculateChecksum(t, genesis) ==
    LET s == SumBytes(t \o genesis) % 65536
    IN  <<s % 256, s \div 256>>

NewID(t, genesis) == t \o genesis \o CalculateChecksum(t, genesis)

CheckChecksum(i) ==
    CalculateChecksum(SubSeq(i, 1, 2), SubSeq(i, 3, 2 + genesisLn))
        = SubSeq(i, idLn - 1, idLn)

B58Alphabet ==
    <<"1", "2", "3", "4", "5", "6", "7", "8", "9",
      "A", "B", "C", "D", "E", "F", "G", "H", "J", "K", "L", "M", "N", "P", "Q",
      "R", "S", "T", "U", "V", "W", "X", "Y", "Z",
      "a", "b", "c", "d", "e", "f", "g", "h", "i", "j", "k", "m", "n", "o", "p",
      "q", "r", "s", "t", "u", "v", "w", "x", "y", "z">>

B58Chars == {B58Alphabet[i] : i \in 1..58}

B58Index == [c \in B58Chars |-> (CHOOSE i \in 1..58 : B58Alphabet[i] = c) - 1]

\* Numbers too wide for one machine word are held as big-endian sequences of
\* 24-bit limbs (three bytes to a limb).
Limb == 256 * 256 * 256

\* how many elements equal to z the sequence b starts with
LeadingCount(b, z) ==
    IF \A k \in 1..Len(b) : b[k] = z THEN Len(b)
    ELSE (CHOOSE k \in 1..Len(b) : b[k] # z /\ \A j \in 1..(k - 1) : b[j] = z) - 1

StripZeros(b) == SubSeq(b, LeadingCount(b, 0) + 1, Len(b))

\* the limbs of the number whose big-endian bytes are b
ToLimbs(b) ==
    LET n   == (Len(b) + 2) \div 3
        pad == Zeros(3 * n - Len(b)) \o b
    IN  [i \in 1..n |-> pad[3 * i - 2] * 65536 + pad[3 * i - 1] * 256 + pad[3 * i]]

\* the big-endian bytes, without leading zero bytes, of the number of limbs l
FromLimbs(l) ==
    StripZeros([j \in 1..(3 * Len(l)) |->
                   LET x == l[(j + 2) \div 3]
                   IN  CASE j % 3 = 1 -> x \div 65536
                         [] j % 3 = 2 -> (x \div 256) % 256
                         [] OTHER -> x % 256])

\* the number l divided by 58, from limb k on: <<quotient limbs, remainder>>
RECURSIVE DivMod58(_, _, _, _)
DivMod58(l, k, q, r) ==
    IF k > Len(l) THEN <<q, r>>
    ELSE LET cur == r * Limb + l[k]
         IN  DivMod58(l, k + 1, Append(q, cur \div 58), cur % 58)

\* the base58 digits of the number l, most significant first (the condition on
\* acc has the digits found so far evaluated at every step, not all at the end)
RECURSIVE B58Digits(_, _)
B58Digits(l, acc) ==
    IF l = <<>> \/ Len(acc) < 0 THEN acc
    ELSE LET qr == DivMod58(l, 1, <<>>, 0)
         IN  B58Digits(StripZeros(qr[1]), <<B58Alphabet[qr[2] + 1]>> \o acc)

\* base58.Encode: one "1" per leading zero byte, then the digits of the number
B58Encode(b) ==
    [i \in 1..LeadingCount(b, 0) |-> "1"] \o B58Digits(StripZeros(ToLimbs(b)), <<>>)

\* the number l times 58 plus carry, from limb k down to the first
RECURSIVE MulAdd58(_, _, _, _)
MulAdd58(l, k, carry, acc) ==
    IF k = 0 THEN (IF carry = 0 THEN acc ELSE <<carry>> \o acc)
    ELSE LET cur == l[k] * 58 + carry
         IN  MulAdd58(l, k - 1, cur \div Limb, <<cur % Limb>> \o acc)

\* the number acc * 58^n + the number of the base58 digits text[k..], n of them
\* (the condition on acc has the number so far evaluated at every step)
RECURSIVE B58Number(_, _, _)
B58Number(text, k, acc) ==
    IF k > Len(text) \/ Len(acc) < 0 THEN acc
    ELSE B58Number(text, k + 1, MulAdd58(acc, Len(acc), B58Index[text[k]], <<>>))

\* base58.Decode of a text of base58 characters: one zero byte per leading "1",
\* then the bytes of the number
B58Decode(text) ==
    LET k == LeadingCount(text, "1")
    IN  Zeros(k) \o FromLimbs(B58Number(text, k + 1, <<>>))

\* ID.String()
IDString(i) == B58Encode(i)

\* IDFromString / ParseID: decodes the text, fails if it is no base58 text or
\* the decoded length is not that of an ID
IDFromString(text) ==
    IF \E k \in 1..Len(text) : text[k] \notin B58Chars
    THEN [id |-> Zeros(idLn), err |-> Err(ErrMalformedEncoding, "invalid base58")]
    ELSE LET b == B58Decode(text)
         IN  IF Len(b) # idLn
             THEN [id |-> Zeros(idLn),
                   err |-> Err(ErrMalformedEncoding, "byte array incorrect length")]
             ELSE [id |-> b, err |-> Nil]

-----------------------------------------------------------------------------
(* did.go (current revision): methods, blockchains, networks, type table   *)

DIDSchema == <<"d", "i", "d">>

DIDMethodIden3 == 1

DIDMethodPolygonID == 2

DIDMethodPolygonIDOnChain == 130

DIDMethodOther == 255

knownMethods == {DIDMethodIden3, DIDMethodPolygonID}

Iden3Name == <<"i", "d", "e", "n", "3">>

PolygonIDName == <<"p", "o", "l", "y", "g", "o", "n", "i", "d">>

\* DIDMethod.String()
DIDMethodString(m) ==
    CASE m = DIDMethodIden3 -> Iden3Name
      [] m = DIDMethodPolygonID -> PolygonIDName
      [] m = DIDMethodOther -> <<>>
      [] OTHER -> <<"u", "n", "k", "n", "o", "w", "n", "<">> \o Decimal(m) \o <<">">>

Ethereum == <<"e", "t", "h">>

Polygon == <<"p", "o", "l", "y", "g", "o", "n">>

UnknownChain == <<"u", "n", "k", "n", "o", "w", "n">>

ReadOnly == <<"r", "e", "a", "d", "o", "n", "l", "y">>

NoChain == <<>>

Main == <<"m", "a", "i", "n">>

Mumbai == <<"m", "u", "m", "b", "a", "i">>

Goerli == <<"g", "o", "e", "r", "l", "i">>

UnknownNetwork == <<"u", "n", "k", "n", "o", "w", "n">>

NoNetwork == <<>>

DIDNetworkFlag(blockchain, network) == [Blockchain |-> blockchain, NetworkID |-> network]

\* mutant: the byte of (Polygon, Main) pasted into the (Ethereum, Main) entry
RegisteredNetworksDuplicate ==
    (DIDNetworkFlag(ReadOnly, NoNetwork) :> 0)
    @@ (DIDNetworkFlag(Polygon, Main) :> 17)
    @@ (DIDNetworkFlag(Polygon, Mumbai) :> 18)
    @@ (DIDNetworkFlag(Ethereum, Main) :> 17)
    @@ (DIDNetworkFlag(Ethereum, Goerli) :> 34)

\* the table of the two registered methods (the same literal for both)
RegisteredNetworks ==
    (DIDNetworkFlag(ReadOnly, NoNetwork) :> 0)
    @@ (DIDNetworkFlag(Polygon, Main) :> 17)
    @@ (DIDNetworkFlag(Polygon, Mumbai) :> 18)
    @@ (DIDNetworkFlag(Ethereum, Main) :> 33)
    @@ (DIDNetworkFlag(Ethereum, Goerli) :> 34)

OtherNetworks == (DIDNetworkFlag(UnknownChain, UnknownNetwork) :> 255)

DIDMethodNetwork ==
    (DIDMethodIden3 :> RegisteredNetworks)
    @@ (DIDMethodPolygonID :> RegisteredNetworks)
    @@ (DIDMethodOther :> OtherNetworks)

NoType == <<0, 0>>

\* mutant: the two type bytes in the wrong order
BuildDIDTypeSwapped(method, blockchain, network) ==
    IF method \notin knownMethods
    THEN [typ |-> NoType, err |-> Err(ErrDIDMethodNotSupported, "")]
    ELSE LET bc      == IF blockchain = NoChain THEN ReadOnly ELSE blockchain
             netFlag == DIDNetworkFlag(bc, network)
         IN  IF netFlag \notin DOMAIN DIDMethodNetwork[method]
             THEN [typ |-> NoType, err |-> Err(ErrNetworkNotSupportedForDID, "")]
             ELSE [typ |-> <<DIDMethodNetwork[method][netFlag], method>>, err |-> Nil]

\* mutant: the empty blockchain is looked up as it is
BuildDIDTypeNoReadOnly(method, blockchain, network) ==
    IF method \notin knownMethods
    THEN [typ |-> NoType, err |-> Err(ErrDIDMethodNotSupported, "")]
    ELSE LET netFlag == DIDNetworkFlag(blockchain, network)
         IN  IF netFlag \notin DOMAIN DIDMethodNetwork[method]
             THEN [typ |-> NoType, err |-> Err(ErrNetworkNotSupportedForDID, "")]
             ELSE [typ |-> <<method, DIDMethodNetwork[method][netFlag]>>, err |-> Nil]

BuildDIDType(method, blockchain, network) ==
    IF method \notin knownMethods
    THEN [typ |-> NoType, err |-> Err(ErrDIDMethodNotSupported, "")]
    ELSE LET bc      == IF blockchain = NoChain THEN ReadOnly ELSE blockchain
             netFlag == DIDNetworkFlag(bc, network)
         IN  IF netFlag \notin DOMAIN DIDMethodNetwork[method]
             THEN [typ |-> NoType, err |-> Err(ErrNetworkNotSupportedForDID, "")]
             ELSE [typ |-> <<method, DIDMethodNetwork[method][netFlag]>>, err |-> Nil]

\* The keys a "for k, v := range table" loop can stop at: Go fixes no iteration
\* order, so a lookup by value returns the field of ANY key holding the byte.
KeysByValue(table, v) == {k \in DOMAIN table : table[k] = v}

\* the set of results the call can return
FindNetworkIDForDIDMethodByValue(method, v) ==
    IF method \notin DOMAIN DIDMethodNetwork
    THEN {[val |-> UnknownNetwork, err |-> Err(ErrDIDMethodNotSupported, "")]}
    ELSE IF KeysByValue(DIDMethodNetwork[method], v) = {}
    THEN {[val |-> UnknownNetwork, err |-> Err(ErrNetworkNotSupportedForDID, "")]}
    ELSE {[val |-> k.NetworkID, err |-> Nil] : k \in KeysByValue(DIDMethodNetwork[method], v)}

\* the set of results the call can return
FindBlockchainForDIDMethodByValue(method, v) ==
    IF method \notin DOMAIN DIDMethodNetwork
    THEN {[val |-> UnknownChain, err |-> Err(ErrDIDMethodNotSupported, "")]}
    ELSE IF KeysByValue(DIDMethodNetwork[method], v) = {}
    THEN {[val |-> UnknownChain, err |-> Err(ErrBlockchainNotSupportedForDID, "")]}
    ELSE {[val |-> k.Blockchain, err |-> Nil] : k \in KeysByValue(DIDMethodNetwork[method], v)}

DecodeFailed(e) ==
    [method |-> DIDMethodOther, blockchain |-> UnknownChain,
     networkID |-> UnknownNetwork, err |-> e]

\* the set of results the call can return
decodeDIDPartsFromID(i) ==
    LET method      == i[1]
        networkByte == i[2]
    IN  UNION { IF b.err # Nil THEN {DecodeFailed(b.err)}
                ELSE { IF n.err # Nil THEN DecodeFailed(n.err)
                       ELSE [method |-> method, blockchain |-> b.val,
                             networkID |-> n.val, err |-> Nil]
                       : n \in FindNetworkIDForDIDMethodByValue(method, networkByte) }
              : b \in FindBlockchainForDIDMethodByValue(method, networkByte) }

\* mutant: no type is taken for the one of an unsupported DID
isUnsupportedDIDNever(method, blockchain, networkID) == FALSE

isUnsupportedDID(method, blockchain, networkID) ==
    method = DIDMethodOther /\ blockchain = UnknownChain /\ networkID = UnknownNetwork

-----------------------------------------------------------------------------
(* The DID value (package did): its method and ID segments, text form      *)

DID(method, idStrings) == [Method |-> method, IDStrings |-> idStrings]

\* a nil *DID
NoDID == DID(<<>>, <<>>)

\* DID.String(): did:<method>:<segment>:...:<segment>
DIDString(d) == Join(<<DIDSchema, d.Method>> \o d.IDStrings, Colon)

\* did.Parse: the generic DID grammar: the schema, a method name and at least
\* one ID segment, every one of them non-empty
DIDParse(text) ==
    LET parts == Split(text, ":")
    IN  IF \/ Len(parts) < 3
           \/ parts[1] # DIDSchema
           \/ \E k \in 2..Len(parts) : parts[k] = <<>>
        THEN [did |-> NoDID, err |-> Err(ErrInvalidDID, "parse")]
        ELSE [did |-> DID(parts[2], SubSeq(parts, 3, Len(parts))), err |-> Nil]

\* the characters of the texts, in ASCII order from "0" (code 48) to "z" (code 122);
\* codes 92 and 96 are placeholders no text contains
AsciiFrom0 ==
    <<"0", "1", "2", "3", "4", "5", "6", "7", "8", "9", ":", ";", "<", "=", ">", "?", "@",
      "A", "B", "C", "D", "E", "F", "G", "H", "I", "J", "K", "L", "M", "N", "O", "P", "Q",
      "R", "S", "T", "U", "V", "W", "X", "Y", "Z", "[", "backslash", "]", "^", "_", "backquote",
      "a", "b", "c", "d", "e", "f", "g", "h", "i", "j", "k", "l", "m", "n", "o", "p", "q",
      "r", "s", "t", "u", "v", "w", "x", "y", "z">>

CharCode == [c \in {AsciiFrom0[i] : i \in 1..Len(AsciiFrom0)} |->
                47 + (CHOOSE i \in 1..Len(AsciiFrom0) : AsciiFrom0[i] = c)]

hashLn == 32

\* two sums over the character codes of text[lo..hi], modulo 65521: the plain
\* sum and the sum weighted by position
RECURSIVE Sums(_, _, _)
Sums(text, lo, hi) ==
    IF lo > hi THEN <<0, 0>>
    ELSE IF lo = hi THEN <<CharCode[text[lo]], (lo * CharCode[text[lo]]) % 65521>>
    ELSE LET mid == (lo + hi) \div 2
             l   == Sums(text, lo, mid)
             r   == Sums(text, mid + 1, hi)
         IN  <<(l[1] + r[1]) % 65521, (l[2] + r[2]) % 65521>>

\* sha256.Sum256 of the bytes of a text: a 32-byte digest that depends on every
\* character and on its position (the digest function itself is the library's)
Sha256(text) ==
    LET ab == Sums(text, 1, Len(text))
    IN  [lane \in 1..hashLn |-> (((ab[1] + lane) % 256) * ((ab[2] + 2 * lane + 1) % 256)) % 256]

newIDFromUnsupportedDID(d) ==
    LET hash    == Sha256(DIDString(d))
        genesis == SubSeq(hash, Len(hash) - genesisLn + 1, Len(hash))
        flg     == DIDNetworkFlag(UnknownChain, UnknownNetwork)
        tp      == <<DIDMethodOther, DIDMethodNetwork[DIDMethodOther][flg]>>
    IN  NewID(tp, genesis)

\* mutant: the blockchain segment is not compared
idFromDIDPartsNoBlockchainCheck(d, i, parts) ==
    IF parts.err # Nil THEN [id |-> i, err |-> parts.err]
    ELSE IF DIDMethodString(parts.method) # d.Method
    THEN [id |-> i, err |-> Err(ErrIncorrectDID, "methods in ID and DID are different")]
    ELSE IF Len(d.IDStrings) > 2 /\ parts.networkID # d.IDStrings[2]
    THEN [id |-> i, err |-> Err(ErrIncorrectDID, "networkIDs in ID and DID are different")]
    ELSE [id |-> i, err |-> Nil]

\* mutant: the network segment is not compared
idFromDIDPartsNoNetworkCheck(d, i, parts) ==
    IF parts.err # Nil THEN [id |-> i, err |-> parts.err]
    ELSE IF DIDMethodString(parts.method) # d.Method
    THEN [id |-> i, err |-> Err(ErrIncorrectDID, "methods in ID and DID are different")]
    ELSE IF Len(d.IDStrings) > 1 /\ parts.blockchain # d.IDStrings[1]
    THEN [id |-> i, err |-> Err(ErrIncorrectDID, "blockchains in ID and DID are different")]
    ELSE [id |-> i, err |-> Nil]

\* the checks of idFromDID that follow the decoding of the ID's type bytes
idFromDIDParts(d, i, parts) ==
    IF parts.err # Nil THEN [id |-> i, err |-> parts.err]
    ELSE IF DIDMethodString(parts.method) # d.Method
    THEN [id |-> i, err |-> Err(ErrIncorrectDID, "methods in ID and DID are different")]
    ELSE IF Len(d.IDStrings) > 1 /\ parts.blockchain # d.IDStrings[1]
    THEN [id |-> i, err |-> Err(ErrIncorrectDID, "blockchains in ID and DID are different")]
    ELSE IF Len(d.IDStrings) > 2 /\ parts.networkID # d.IDStrings[2]
    THEN [id |-> i, err |-> Err(ErrIncorrectDID, "networkIDs in ID and DID are different")]
    ELSE [id |-> i, err |-> Nil]

\* the set of results the call can return
idFromDID(d) ==
    IF ~ \E method \in knownMethods : DIDMethodString(method) = d.Method
    THEN {[id |-> Zeros(idLn), err |-> Err(ErrMethodUnknown, "")]}
    ELSE IF Len(d.IDStrings) > 3 \/ Len(d.IDStrings) < 1
    THEN {[id |-> Zeros(idLn),
           err |-> Err(ErrIncorrectDID, "unexpected number of ID strings")]}
    ELSE LET r == IDFromString(d.IDStrings[Len(d.IDStrings)])
         IN  IF r.err # Nil
             THEN {[id |-> r.id, err |-> Err(ErrIncorrectDID, "can't parse ID string")]}
             ELSE IF ~ CheckChecksum(r.id)
             THEN {[id |-> r.id, err |-> Err(ErrIncorrectDID, "incorrect ID checksum")]}
             ELSE {idFromDIDParts(d, r.id, parts) : parts \in decodeDIDPartsFromID(r.id)}

\* mutant: the error of an unknown method is returned to the caller
IDFromDIDNoFallback(d) == idFromDID(d)

\* the set of results the call can return
IDFromDID(d) ==
    { IF ErrorsIs(r.err, ErrMethodUnknown)
      THEN [id |-> newIDFromUnsupportedDID(d), err |-> Nil]
      ELSE r
      : r \in idFromDID(d) }

\* mutant: the network segment is written even when it is empty
ParseDIDFromIDPartsAlwaysNetwork(i, parts) ==
    IF parts.err # Nil THEN [did |-> NoDID, err |-> parts.err]
    ELSE IF isUnsupportedDID(parts.method, parts.blockchain, parts.networkID)
    THEN [did |-> NoDID, err |-> Err(ErrMethodUnknown, "unsupported DID")]
    ELSE LET head     == <<DIDSchema, DIDMethodString(parts.method), parts.blockchain>>
             didParts == Append(Append(head, parts.networkID), IDString(i))
         IN  DIDParse(Join(didParts, Colon))

\* ParseDIDFromID once the ID's type bytes are decoded
ParseDIDFromIDParts(i, parts) ==
    IF parts.err # Nil THEN [did |-> NoDID, err |-> parts.err]
    ELSE IF isUnsupportedDID(parts.method, parts.blockchain, parts.networkID)
    THEN [did |-> NoDID, err |-> Err(ErrMethodUnknown, "unsupported DID")]
    ELSE LET head     == <<DIDSchema, DIDMethodString(parts.method), parts.blockchain>>
             withNet  == IF parts.networkID # <<>> THEN Append(head, parts.networkID)
                         ELSE head
             didParts == Append(withNet, IDString(i))
         IN  DIDParse(Join(didParts, Colon))

\* mutant: the checksum is not verified
ParseDIDFromIDNoChecksum(i) ==
    {ParseDIDFromIDParts(i, parts) : parts \in decodeDIDPartsFromID(i)}

\* the set of results the call can return
ParseDIDFromID(i) ==
    IF ~ CheckChecksum(i)
    THEN {[did |-> NoDID, err |-> Err(ErrUnsupportedID, "invalid checksum")]}
    ELSE {ParseDIDFromIDParts(i, parts) : parts \in decodeDIDPartsFromID(i)}

\* the set of results the call can return
MethodFromID(i) ==
    { IF parts.err # Nil THEN [val |-> DIDMethodOther, err |-> parts.err]
      ELSE IF isUnsupportedDID(parts.method, parts.blockchain, parts.networkID)
      THEN [val |-> DIDMethodOther, err |-> Err(ErrMethodUnknown, "unsupported DID")]
      ELSE [val |-> parts.method, err |-> Nil]
      : parts \in decodeDIDPartsFromID(i) }

\* the set of results the call can return
BlockchainFromID(i) ==
    { IF parts.err # Nil THEN [val |-> UnknownChain, err |-> parts.err]
      ELSE IF isUnsupportedDID(parts.method, parts.blockchain, parts.networkID)
      THEN [val |-> UnknownChain, err |-> Err(ErrMethodUnknown, "unsupported DID")]
      ELSE [val |-> parts.blockchain, err |-> Nil]
      : parts \in decodeDIDPartsFromID(i) }

\* the set of results the call can return
NetworkIDFromID(i) ==
    { IF parts.err # Nil THEN [val |-> UnknownNetwork, err |-> parts.err]
      ELSE IF isUnsupportedDID(parts.method, parts.blockchain, parts.networkID)
      THEN [val |-> UnknownNetwork, err |-> Err(ErrMethodUnknown, "unsupported DID")]
      ELSE [val |-> parts.networkID, err |-> Nil]
      : parts \in decodeDIDPartsFromID(i) }

\* mutant: the address is read from the first 20 genesis bytes and the 7 bytes
\* after it are the ones required to be zero
EthAddressFromIDLeft(i) ==
    IF SubSeq(i, 2 + addrLn + 1, 2 + genesisLn) # Zeros(reservedLn)
    THEN [val |-> Zeros(addrLn),
          err |-> Err(ErrEthAddress, "high bytes of genesis are not zero")]
    ELSE [val |-> SubSeq(i, 3, 2 + addrLn), err |-> Nil]

EthAddressFromID(i) ==
    IF SubSeq(i, 3, 2 + reservedLn) # Zeros(reservedLn)
    THEN [val |-> Zeros(addrLn),
          err |-> Err(ErrEthAddress, "high bytes of genesis are not zero")]
    ELSE [val |-> SubSeq(i, 2 + reservedLn + 1, 2 + reservedLn + addrLn), err |-> Nil]

\* mutant: the address is copied to the start of the genesis
GenesisFromEthAddressLeft(a) == a \o Zeros(reservedLn)

GenesisFromEthAddress(a) == Zeros(reservedLn) \o a

-----------------------------------------------------------------------------
(* did.go (earlier revision, where a DIDMethod is the method's name)       *)

DIDMethodByteV1 == (Iden3Name :> 1) @@ (PolygonIDName :> 2)

RegisteredNetworksV1 ==
    (DIDNetworkFlag(ReadOnly, NoNetwork) :> 0)
    @@ (DIDNetworkFlag(Polygon, Main) :> 17)
    @@ (DIDNetworkFlag(Polygon, Mumbai) :> 18)
    @@ (DIDNetworkFlag(Ethereum, Main) :> 33)
    @@ (DIDNetworkFlag(Ethereum, Goerli) :> 34)

DIDMethodNetworkV1 ==
    (Iden3Name :> RegisteredNetworksV1) @@ (PolygonIDName :> RegisteredNetworksV1)

BuildDIDTypeV1(method, blockchain, network) ==
    IF method \notin DOMAIN DIDMethodByteV1
    THEN [typ |-> NoType, err |-> Err(ErrDIDMethodNotSupported, "")]
    ELSE LET bc      == IF blockchain = NoChain THEN ReadOnly ELSE blockchain
             netFlag == DIDNetworkFlag(bc, network)
         IN  IF netFlag \notin DOMAIN DIDMethodNetworkV1[method]
             THEN [typ |-> NoType, err |-> Err(ErrNetworkNotSupportedForDID, "")]
             ELSE [typ |-> <<DIDMethodByteV1[method], DIDMethodNetworkV1[method][netFlag]>>,
                   err |-> Nil]

\* the set of results the call can return
FindNetworkIDForDIDMethodByValueV1(method, v) ==
    IF method \notin DOMAIN DIDMethodNetworkV1
    THEN {[val |-> UnknownNetwork, err |-> Err(ErrDIDMethodNotSupported, "")]}
    ELSE IF KeysByValue(DIDMethodNetworkV1[method], v) = {}
    THEN {[val |-> UnknownNetwork, err |-> Err(ErrNetworkNotSupportedForDID, "")]}
    ELSE {[val |-> k.NetworkID, err |-> Nil]
          : k \in KeysByValue(DIDMethodNetworkV1[method], v)}

\* the set of results the call can return
FindBlockchainForDIDMethodByValueV1(method, v) ==
    IF method \notin DOMAIN DIDMethodNetworkV1
    THEN {[val |-> UnknownChain, err |-> Err(ErrDIDMethodNotSupported, "")]}
    ELSE IF KeysByValue(DIDMethodNetworkV1[method], v) = {}
    THEN {[val |-> UnknownChain, err |-> Err(ErrNetworkNotSupportedForDID, "")]}
    ELSE {[val |-> k.Blockchain, err |-> Nil]
          : k \in KeysByValue(DIDMethodNetworkV1[method], v)}

\* the set of results the call can return
FindDIDMethodByValueV1(v) ==
    IF KeysByValue(DIDMethodByteV1, v) = {}
    THEN {[val |-> <<>>, err |-> Err(ErrDIDMethodNotSupported, "")]}
    ELSE {[val |-> k, err |-> Nil] : k \in KeysByValue(DIDMethodByteV1, v)}

DecodeFailedV1(e) ==
    [method |-> <<>>, blockchain |-> UnknownChain, networkID |-> UnknownNetwork, err |-> e]

\* the set of results the call can return; ID.MethodByte() and
\* ID.BlockchainNetworkByte() are the two type bytes
decodeDIDPartsFromIDV1(i) ==
    LET methodByte  == i[1]
        networkByte == i[2]
    IN  UNION { IF m.err # Nil THEN {DecodeFailedV1(m.err)}
                ELSE UNION { IF b.err # Nil THEN {DecodeFailedV1(b.err)}
                             ELSE { IF n.err # Nil THEN DecodeFailedV1(n.err)
                                    ELSE [method |-> m.val, blockchain |-> b.val,
                                          networkID |-> n.val, err |-> Nil]
                                    : n \in FindNetworkIDForDIDMethodByValueV1(m.val, networkByte) }
                           : b \in FindBlockchainForDIDMethodByValueV1(m.val, networkByte) }
              : m \in FindDIDMethodByValueV1(methodByte) }

decodeIDFromDIDV1(d) ==
    IF Len(d.IDStrings) > 3
    THEN [id |-> Zeros(idLn), err |-> Err(ErrInvalidDID, "too many fields")]
    ELSE IF Len(d.IDStrings) < 1
    THEN [id |-> Zeros(idLn), err |-> Err(ErrInvalidDID, "no ID field in DID")]
    ELSE LET r == IDFromString(d.IDStrings[Len(d.IDStrings)])
         IN  IF r.err # Nil
             THEN [id |-> r.id, err |-> Err(ErrInvalidDID, r.err.msg)]
             ELSE IF ~ CheckChecksum(r.id)
             THEN [id |-> r.id, err |-> Err(ErrInvalidDID, "invalid checksum")]
             ELSE [id |-> r.id, err |-> Nil]

DecomposeFailedV1(i, e) ==
    [blockchain |-> UnknownChain, networkID |-> UnknownNetwork, id |-> i, err |-> e]

\* the checks of Decompose that follow the decoding of the ID's type bytes
DecomposePartsV1(d, i, parts) ==
    IF parts.err # Nil THEN DecomposeFailedV1(i, parts.err)
    ELSE IF parts.method # d.Method
    THEN DecomposeFailedV1(i, Err(ErrInvalidDID, "method mismatch"))
    ELSE IF Len(d.IDStrings) > 1 /\ parts.blockchain # d.IDStrings[1]
    THEN DecomposeFailedV1(i, Err(ErrInvalidDID, "blockchain mismatch"))
    ELSE IF Len(d.IDStrings) > 2 /\ parts.networkID # d.IDStrings[2]
    THEN DecomposeFailedV1(i, Err(ErrInvalidDID, "network ID mismatch"))
    ELSE [blockchain |-> parts.blockchain, networkID |-> parts.networkID,
          id |-> i, err |-> Nil]

\* the set of results the call can return
DecomposeV1(d) ==
    LET r == decodeIDFromDIDV1(d)
    IN  IF r.err # Nil THEN {DecomposeFailedV1(r.id, r.err)}
        ELSE {DecomposePartsV1(d, r.id, parts) : parts \in decodeDIDPartsFromIDV1(r.id)}

\* the set of results the call can return
IDFromDIDV1(d) == {[id |-> r.id, err |-> r.err] : r \in DecomposeV1(d)}

\* ParseDIDFromID once the ID's type bytes are decoded
ParseDIDFromIDPartsV1(i, parts) ==
    IF parts.err # Nil THEN [did |-> NoDID, err |-> parts.err]
    ELSE LET head     == <<DIDSchema, parts.method, parts.blockchain>>
             withNet  == IF parts.networkID # <<>> THEN Append(head, parts.networkID)
                         ELSE head
             didParts == Append(withNet, IDString(i))
         IN  DIDParse(Join(didParts, Colon))

\* the set of results the call can return
ParseDIDFromIDV1(i) ==
    IF ~ CheckChecksum(i)
    THEN {[did |-> NoDID, err |-> Err(ErrInvalidDID, "invalid checksum")]}
    ELSE {ParseDIDFromIDPartsV1(i, parts) : parts \in decodeDIDPartsFromIDV1(i)}

-----------------------------------------------------------------------------
(* The inputs the calls are made on                                        *)

FillByte(k) == (k * 255) % 256

\* genesis offsets probed with a non-zero byte: both ends of the 7 leading bytes,
\* of the 20 bytes that follow them, and of the 7 trailing bytes
GenesisProbes == {1, 7, 8, 20, 21, 27}

GenesisInputs ==
    {Zeros(genesisLn)}
    \cup {[j \in 1..genesisLn |-> IF j = p THEN FillByte(k) ELSE 0]
          : p \in GenesisProbes, k \in 1..MaxFill}
    \cup {[j \in 1..genesisLn |-> FillByte(k)] : k \in 1..MaxFill}

AddrProbes == {1, 13, 14, 20}

AddrInputs ==
    {Zeros(addrLn)}
    \cup {[j \in 1..addrLn |-> IF j = p THEN FillByte(k) ELSE 0]
          : p \in AddrProbes, k \in 1..MaxFill}
    \cup {[j \in 1..addrLn |-> FillByte(k)] : k \in 1..MaxFill}

MethodBytes == {DIDMethodIden3, DIDMethodPolygonID, DIDMethodPolygonIDOnChain, DIDMethodOther, 0}

NetworkBytes == {0, 17, 18, 33, 34, 19, 255}

TypeInputs == {<<m, n>> : m \in MethodBytes, n \in NetworkBytes}

\* an ID whose checksum field is off by one
Corrupt(i) == [i EXCEPT ![idLn - 1] = (@ + 1) % 256]

IDInputs ==
    {NewID(t, g) : t \in TypeInputs, g \in GenesisInputs}
    \cup {Corrupt(NewID(t, g)) : t \in TypeInputs, g \in GenesisInputs}

UnregisteredName == <<"k", "e", "y">>

MethodNames == {Iden3Name, PolygonIDName, UnregisteredName, <<>>}

RECURSIVE Prefixes(_)
Prefixes(n) ==
    IF n = 0 THEN {<<>>}
    ELSE Prefixes(n - 1)
         \cup {Append(p, s) : p \in {q \in Prefixes(n - 1) : Len(q) = n - 1},
                             s \in (CASE n = 1 -> {Polygon, Ethereum, ReadOnly}
                                      [] n = 2 -> {Main, Mumbai, NoNetwork}
                                      [] OTHER -> {Main})}

\* last segments: texts of IDs (valid and with a broken checksum), and texts
\* that are no ID
IDTexts ==
    {IDString(NewID(<<m, n>>, [j \in 1..genesisLn |-> FillByte(1)]))
     : m \in {DIDMethodIden3, DIDMethodPolygonID, DIDMethodOther, 0}, n \in {0, 17, 33, 19, 255}}
    \cup {IDString(Corrupt(NewID(<<m, n>>, [j \in 1..genesisLn |-> FillByte(1)])))
          : m \in {DIDMethodIden3, DIDMethodPolygonID, DIDMethodOther, 0}, n \in {0, 17, 33, 19, 255}}
    \cup {<<>>, Polygon, <<"1", "1">>}

DIDInputs ==
    {DID(m, <<>>) : m \in MethodNames}
    \cup {DID(m, Append(p, t)) : m \in MethodNames, p \in Prefixes(MaxPrefix), t \in IDTexts}

Blockchains == {Ethereum, Polygon, UnknownChain, ReadOnly, NoChain}

Networks == {Main, Mumbai, Goerli, UnknownNetwork, NoNetwork}

Request(method, blockchain, network) ==
    [method |-> method, blockchain |-> blockchain, network |-> network]

NoRequest == Request(0, <<>>, <<>>)

None == [op |-> "none"]

-----------------------------------------------------------------------------
(* The components at rest                                                  *)

powHashLn == 32

CodecIdle ==
    /\ pc = "rest" /\ out = None
    /\ id = Zeros(idLn) /\ did = NoDID /\ addr = Zeros(addrLn)
    /\ typ = NoType /\ req = NoRequest

PoWIdle ==
    /\ ppc = "rest" /\ pout = None
    /\ phash = Zeros(powHashLn) /\ hashes = <<>> /\ difficulty = 0 /\ data = 0

\* the components other than the codec
TimeIdle ==
    /\ tpc = "rest" /\ tout = None
    /\ now = 0 /\ timestamp = 0 /\ timelimit = 0

\* the callers of the nonce store
MaxCallers == 2

Callers == 1..MaxCallers

NoCall == [pc |-> "rest", nonce |-> 0]

NonceIdle ==
    /\ store = {} /\ issued = {} /\ ntime = 0
    /\ calls = [c \in Callers |-> NoCall]

\* a nil pointer (account, transaction, receipt)
NilPtr == "nil"

\* the zero value of ContractData
NoContractData == [Address |-> "zero", Tx |-> NilPtr, Receipt |-> NilPtr]

NoCalls ==
    [SuggestGasPrice |-> 0, NewKeyStoreTransactor |-> 0, fn |-> 0,
     WaitReceipt |-> 0, TransactionReceipt |-> 0]

ClientIdle ==
    /\ cpc = "rest" /\ ccall = "none"
    /\ account = NilPtr /\ ReceiptTimeout = 0
    /\ contractData = NoContractData /\ tx = NilPtr
    /\ receipt = NilPtr /\ werr = Nil /\ since = 0
    /\ made = NoCalls
    /\ cout = None /\ wout = None /\ dout = None

notCodec == <<powVars, timeVars, nonceVars, clientVars>>

notPoW == <<codecVars, timeVars, nonceVars, clientVars>>

notTime == <<codecVars, powVars, nonceVars, clientVars>>

notNonce == <<codecVars, powVars, timeVars, clientVars>>

notClient == <<codecVars, powVars, timeVars, nonceVars>>

NotCodecIdle == PoWIdle /\ TimeIdle /\ NonceIdle /\ ClientIdle

NotPoWIdle == CodecIdle /\ TimeIdle /\ NonceIdle /\ ClientIdle

NotTimeIdle == CodecIdle /\ PoWIdle /\ NonceIdle /\ ClientIdle

NotNonceIdle == CodecIdle /\ PoWIdle /\ TimeIdle /\ ClientIdle

NotClientIdle == CodecIdle /\ PoWIdle /\ TimeIdle /\ NonceIdle

-----------------------------------------------------------------------------
(* Init: one call site, with its arguments                                 *)

Init ==
    /\ out = None
    /\ \/ /\ pc = "id"
          /\ id \in IDInputs
          /\ did = NoDID /\ addr = Zeros(addrLn) /\ typ = NoType /\ req = NoRequest
       \/ /\ pc = "did"
          /\ did \in DIDInputs
          /\ id = Zeros(idLn) /\ addr = Zeros(addrLn) /\ typ = NoType /\ req = NoRequest
       \/ /\ pc = "addr"
          /\ addr \in AddrInputs
          /\ typ \in TypeInputs
          /\ id = Zeros(idLn) /\ did = NoDID /\ req = NoRequest
       \/ /\ pc = "build"
          /\ req \in {Request(m, b, n) : m \in MethodBytes, b \in Blockchains, n \in Networks}
          /\ id = Zeros(idLn) /\ did = NoDID /\ addr = Zeros(addrLn) /\ typ = NoType
       \/ /\ pc = "buildV1"
          /\ req \in {Request(m, b, n) : m \in MethodNames, b \in Blockchains, n \in Networks}
          /\ id = Zeros(idLn) /\ did = NoDID /\ addr = Zeros(addrLn) /\ typ = NoType
    /\ NotCodecIdle

-----------------------------------------------------------------------------
(* One action per function called                                          *)

\* on an ID given by the caller, or on the ID IDFromDID returned
CallParseDIDFromID ==
    /\ pc \in {"id", "fromdid"}
    /\ \E r \in ParseDIDFromID(id) :
          /\ out' = [op |-> "ParseDIDFromID", did |-> r.did, err |-> r.err]
          /\ did' = IF pc = "id" THEN r.did ELSE did
    /\ pc' = IF pc = "id" THEN "parsed" ELSE "done"
    /\ UNCHANGED <<id, addr, typ, req>>
    /\ UNCHANGED notCodec

CallParseDIDFromIDV1 ==
    /\ pc = "id"
    /\ \E r \in ParseDIDFromIDV1(id) :
          /\ out' = [op |-> "ParseDIDFromIDV1", did |-> r.did, err |-> r.err]
          /\ did' = r.did
    /\ pc' = "parsedV1"
    /\ UNCHANGED <<id, addr, typ, req>>
    /\ UNCHANGED notCodec

\* on a DID given by the caller (the ID returned is kept for further calls), or
\* on the DID ParseDIDFromID returned
CallIDFromDID ==
    /\ \/ pc = "did"
       \/ pc = "parsed" /\ out.err = Nil
    /\ \E r \in IDFromDID(did) :
          /\ out' = [op |-> "IDFromDID", id |-> r.id, err |-> r.err]
          /\ id' = IF pc = "did" THEN r.id ELSE id
          /\ pc' = IF pc = "parsed" THEN "roundtrip"
                   ELSE IF r.err = Nil THEN "fromdid" ELSE "done"
    /\ UNCHANGED <<did, addr, typ, req>>
    /\ UNCHANGED notCodec

\* on a DID given by the caller, or on the DID ParseDIDFromID (V1) returned
CallDecomposeV1 ==
    /\ \/ pc = "did"
       \/ pc = "parsedV1" /\ out.err = Nil
    /\ \E r \in DecomposeV1(did) :
          out' = [op |-> "DecomposeV1", blockchain |-> r.blockchain,
                  networkID |-> r.networkID, id |-> r.id, err |-> r.err]
    /\ pc' = IF pc = "did" THEN "done" ELSE "roundtripV1"
    /\ UNCHANGED <<id, did, addr, typ, req>>
    /\ UNCHANGED notCodec

CallIDFromDIDV1 ==
    /\ pc = "did"
    /\ \E r \in IDFromDIDV1(did) :
          out' = [op |-> "IDFromDIDV1", id |-> r.id, err |-> r.err]
    /\ pc' = "done"
    /\ UNCHANGED <<id, did, addr, typ, req>>
    /\ UNCHANGED notCodec

\* on an ID given by the caller, or on the ID IDFromDID returned
CallMethodFromID ==
    /\ pc \in {"id", "fromdid"}
    /\ \E r \in MethodFromID(id) :
          out' = [op |-> "MethodFromID", val |-> r.val, err |-> r.err]
    /\ pc' = "done"
    /\ UNCHANGED <<id, did, addr, typ, req>>
    /\ UNCHANGED notCodec

\* on an ID given by the caller, or on the ID IDFromDID returned
CallBlockchainFromID ==
    /\ pc \in {"id", "fromdid"}
    /\ \E r \in BlockchainFromID(id) :
          out' = [op |-> "BlockchainFromID", val |-> r.val, err |-> r.err]
    /\ pc' = "done"
    /\ UNCHANGED <<id, did, addr, typ, req>>
    /\ UNCHANGED notCodec

\* on an ID given by the caller, or on the ID IDFromDID returned
CallNetworkIDFromID ==
    /\ pc \in {"id", "fromdid"}
    /\ \E r \in NetworkIDFromID(id) :
          out' = [op |-> "NetworkIDFromID", val |-> r.val, err |-> r.err]
    /\ pc' = "done"
    /\ UNCHANGED <<id, did, addr, typ, req>>
    /\ UNCHANGED notCodec

\* on an ID given by the caller, or on the ID built from a chain address
CallEthAddressFromID ==
    /\ pc \in {"id", "minted"}
    /\ LET r == EthAddressFromID(id)
       IN  out' = [op |-> "EthAddressFromID", val |-> r.val, err |-> r.err]
    /\ pc' = IF pc = "id" THEN "done" ELSE "recovered"
    /\ UNCHANGED <<id, did, addr, typ, req>>
    /\ UNCHANGED notCodec

CallGenesisFromEthAddress ==
    /\ pc = "addr"
    /\ out' = [op |-> "GenesisFromEthAddress", genesis |-> GenesisFromEthAddress(addr)]
    /\ pc' = "genesis"
    /\ UNCHANGED <<id, did, addr, typ, req>>
    /\ UNCHANGED notCodec

CallBuildDIDType ==
    /\ pc = "build"
    /\ LET r == BuildDIDType(req.method, req.blockchain, req.network)
       IN  /\ out' = [op |-> "BuildDIDType", typ |-> r.typ, err |-> r.err]
           /\ typ' = r.typ
    /\ pc' = "built"
    /\ UNCHANGED <<id, did, addr, req>>
    /\ UNCHANGED notCodec

CallBuildDIDTypeV1 ==
    /\ pc = "buildV1"
    /\ LET r == BuildDIDTypeV1(req.method, req.blockchain, req.network)
       IN  /\ out' = [op |-> "BuildDIDTypeV1", typ |-> r.typ, err |-> r.err]
           /\ typ' = r.typ
    /\ pc' = "builtV1"
    /\ UNCHANGED <<id, did, addr, req>>
    /\ UNCHANGED notCodec

\* NewID(typ, genesis): with the genesis of a chain address, or with the zero
\* genesis and the type BuildDIDType returned
CallNewID ==
    /\ \/ pc = "genesis"
       \/ pc \in {"built", "builtV1"} /\ out.err = Nil
    /\ id' = NewID(typ, IF pc = "genesis" THEN out.genesis ELSE Zeros(genesisLn))
    /\ out' = [op |-> "NewID"]
    /\ pc' = CASE pc = "genesis" -> "minted"
               [] pc = "built" -> "typed"
               [] pc = "builtV1" -> "typedV1"
    /\ UNCHANGED <<did, addr, typ, req>>
    /\ UNCHANGED notCodec

\* on an ID given by the caller, or on the ID of a type BuildDIDType returned
CalldecodeDIDPartsFromID ==
    /\ pc \in {"id", "typed"}
    /\ \E r \in decodeDIDPartsFromID(id) :
          out' = [op |-> "decodeDIDPartsFromID", method |-> r.method,
                  blockchain |-> r.blockchain, networkID |-> r.networkID, err |-> r.err]
    /\ pc' = IF pc = "id" THEN "done" ELSE "decoded"
    /\ UNCHANGED <<id, did, addr, typ, req>>
    /\ UNCHANGED notCodec

CalldecodeDIDPartsFromIDV1 ==
    /\ pc \in {"id", "typedV1"}
    /\ \E r \in decodeDIDPartsFromIDV1(id) :
          out' = [op |-> "decodeDIDPartsFromIDV1", method |-> r.method,
                  blockchain |-> r.blockchain, networkID |-> r.networkID, err |-> r.err]
    /\ pc' = IF pc = "id" THEN "done" ELSE "decodedV1"
    /\ UNCHANGED <<id, did, addr, typ, req>>
    /\ UNCHANGED notCodec

Next ==
    \/ CallParseDIDFromID
    \/ CallParseDIDFromIDV1
    \/ CallIDFromDID
    \/ CallDecomposeV1
    \/ CallIDFromDIDV1
    \/ CallMethodFromID
    \/ CallBlockchainFromID
    \/ CallNetworkIDFromID
    \/ CallEthAddressFromID
    \/ CallGenesisFromEthAddress
    \/ CallBuildDIDType
    \/ CallBuildDIDTypeV1
    \/ CallNewID
    \/ CalldecodeDIDPartsFromID
    \/ CalldecodeDIDPartsFromIDV1

Spec == Init /\ [][Next]_vars

-----------------------------------------------------------------------------
(* Properties                                                              *)

RegisteredNames == {DIDMethodString(m) : m \in knownMethods}

\* the type bytes of i are a registered method and a byte of that method's table
RegisteredType(i) ==
    i[1] \in knownMethods /\ KeysByValue(DIDMethodNetwork[i[1]], i[2]) # {}

RegisteredTypeV1(i) ==
    \E m \in DOMAIN DIDMethodByteV1 :
        DIDMethodByteV1[m] = i[1] /\ KeysByValue(DIDMethodNetworkV1[m], i[2]) # {}

\* the blockchain and network segments a DID carries in front of its ID text
SegmentsFlag(d) ==
    DIDNetworkFlag(d.IDStrings[1],
                   IF Len(d.IDStrings) > 2 THEN d.IDStrings[2] ELSE NoNetwork)

\* C1: Compose/Decompose round trip. For an ID with a valid checksum whose type
\* bytes are a registered method and an entry of its table, ParseDIDFromID
\* succeeds, and IDFromDID (Decompose in the earlier revision) on the DID it
\* returned succeeds and returns the same ID; the DID names the method,
\* blockchain and network the type bytes stand for.
C1_RoundTrip ==
    /\ (pc = "parsed" /\ CheckChecksum(id) /\ RegisteredType(id)) => out.err = Nil
    /\ (pc = "parsedV1" /\ CheckChecksum(id) /\ RegisteredTypeV1(id)) => out.err = Nil
    /\ pc = "roundtrip" =>
          /\ CheckChecksum(id) /\ RegisteredType(id)
          /\ out.err = Nil
          /\ out.id = id
          /\ did.Method = DIDMethodString(id[1])
          /\ Len(did.IDStrings) \in {2, 3}
          /\ did.IDStrings[Len(did.IDStrings)] = IDString(id)
          /\ SegmentsFlag(did) \in KeysByValue(DIDMethodNetwork[id[1]], id[2])
    /\ pc = "roundtripV1" =>
          /\ CheckChecksum(id) /\ RegisteredTypeV1(id)
          /\ out.err = Nil
          /\ out.id = id
          /\ did.Method \in DOMAIN DIDMethodByteV1
          /\ DIDMethodByteV1[did.Method] = id[1]
          /\ DIDNetworkFlag(out.blockchain, out.networkID) = SegmentsFlag(did)
          /\ SegmentsFlag(did) \in KeysByValue(DIDMethodNetworkV1[did.Method], id[2])

C1_Witness ==
    /\ pc = "roundtrip"
    /\ out.err = Nil /\ out.id = id
    /\ did.IDStrings[1] = Ethereum /\ did.IDStrings[2] = Goerli
    /\ id[3] # 0

\* the DID's method, blockchain segment or network segment is not the one the
\* decoded type bytes stand for (methodName: the decoded method's name)
SegmentMismatch(d, methodName, parts) ==
    \/ methodName # d.Method
    \/ Len(d.IDStrings) > 1 /\ d.IDStrings[1] # parts.blockchain
    \/ Len(d.IDStrings) > 2 /\ d.IDStrings[2] # parts.networkID

\* a DID d of a registered method whose last segment is the text of an ID with a
\* valid checksum and decodable type bytes, and whose method, blockchain segment
\* or network segment is not the one the type bytes stand for
Mismatch(d) ==
    /\ d.Method \in RegisteredNames
    /\ Len(d.IDStrings) >= 1
    /\ LET r == IDFromString(d.IDStrings[Len(d.IDStrings)])
       IN  /\ r.err = Nil
           /\ CheckChecksum(r.id)
           /\ \E parts \in decodeDIDPartsFromID(r.id) :
                 /\ parts.err = Nil
                 /\ SegmentMismatch(d, DIDMethodString(parts.method), parts)

\* the same for the earlier revision, whose methods are their names
MismatchV1(d) ==
    /\ d.Method \in DOMAIN DIDMethodByteV1
    /\ Len(d.IDStrings) >= 1
    /\ LET r == IDFromString(d.IDStrings[Len(d.IDStrings)])
       IN  /\ r.err = Nil
           /\ CheckChecksum(r.id)
           /\ \E parts \in decodeDIDPartsFromIDV1(r.id) :
                 /\ parts.err = Nil
                 /\ SegmentMismatch(d, parts.method, parts)

\* C2: a string-vs-ID mismatch is a hard reject. IDFromDID on such a DID returns
\* an error wrapping ErrIncorrectDID (Decompose and IDFromDID of the earlier
\* revision: ErrInvalidDID): neither success nor the ID of the unknown-method
\* fallback.
C2_MismatchRejected ==
    /\ (out.op = "IDFromDID" /\ pc # "roundtrip"
          /\ Mismatch(did))
       => /\ ErrorsIs(out.err, ErrIncorrectDID)
          /\ pc = "done"
          /\ out.id # newIDFromUnsupportedDID(did)
    /\ (out.op \in {"DecomposeV1", "IDFromDIDV1"} /\ pc = "done"
          /\ MismatchV1(did))
       => ErrorsIs(out.err, ErrInvalidDID)

C2_Witness ==
    /\ out.op = "IDFromDID"
    /\ pc = "done"
    /\ did.Method = Iden3Name
    /\ Len(did.IDStrings) = 3
    /\ did.IDStrings[1] = Ethereum
    /\ out.err = Err(ErrIncorrectDID, "blockchains in ID and DID are different")

\* the request is an entry of the type table
TableEntry(table) ==
    /\ req.method \in DOMAIN table
    /\ DIDNetworkFlag(req.blockchain, req.network) \in DOMAIN table[req.method]

\* the decoded parts are the request's
DecodedRequest ==
    /\ out.err = Nil
    /\ out.method = req.method
    /\ out.blockchain = req.blockchain
    /\ out.networkID = req.network

\* C3 as stated: for EVERY entry of DIDMethodNetwork BuildDIDType succeeds and the
\* two bytes decode to the entry.
C3_Original ==
    /\ (pc = "built" /\ TableEntry(DIDMethodNetwork)) => out.err = Nil
    /\ (pc = "decoded" /\ TableEntry(DIDMethodNetwork)) => DecodedRequest

\* C3 (amended): type-table round trip for the entries of the registered methods.
\* For every entry of DIDMethodNetwork under a method of knownMethods (and every
\* entry of the earlier revision's table) BuildDIDType succeeds with the method
\* byte and the entry's byte, and decodeDIDPartsFromID on an ID of that type
\* returns the same method, blockchain and network; for the entry of
\* DIDMethodOther BuildDIDType fails with ErrDIDMethodNotSupported.
C3_TypeRoundTrip ==
    /\ (pc = "built" /\ TableEntry(DIDMethodNetwork)) =>
          IF req.method \in knownMethods
          THEN /\ out.err = Nil
               /\ out.typ = <<req.method, DIDMethodNetwork[req.method]
                                 [DIDNetworkFlag(req.blockchain, req.network)]>>
          ELSE ErrorsIs(out.err, ErrDIDMethodNotSupported) /\ out.typ = NoType
    /\ (pc = "decoded" /\ TableEntry(DIDMethodNetwork)) => DecodedRequest
    /\ (pc = "builtV1" /\ TableEntry(DIDMethodNetworkV1)) =>
          /\ out.err = Nil
          /\ out.typ = <<DIDMethodByteV1[req.method], DIDMethodNetworkV1[req.method]
                            [DIDNetworkFlag(req.blockchain, req.network)]>>
    /\ (pc = "decodedV1" /\ TableEntry(DIDMethodNetworkV1)) => DecodedRequest

C3_Witness ==
    /\ pc = "decoded"
    /\ req = Request(DIDMethodPolygonID, Polygon, Mumbai)
    /\ id[2] = 18
    /\ DecodedRequest

Injective(table) ==
    \A m \in DOMAIN table : \A k1, k2 \in DOMAIN table[m] :
        table[m][k1] = table[m][k2] => k1 = k2

\* the two lookups by value both fail, or return the blockchain and the network
\* of one key of the table that holds the byte, whatever key each loop stops at
LookupsAgree(table, m, v, B, N) ==
    \/ /\ \A b \in B : b.err # Nil
       /\ \A n \in N : n.err # Nil
    \/ /\ m \in DOMAIN table
       /\ \A b \in B, n \in N :
             /\ b.err = Nil /\ n.err = Nil
             /\ DIDNetworkFlag(b.val, n.val) \in KeysByValue(table[m], v)

\* C4: the type table is injective within each method, so the reverse lookups
\* on a method and a byte both fail or give the blockchain and network of one
\* and the same entry, whatever the map's iteration order.
C4_TableInjective ==
    /\ Injective(DIDMethodNetwork)
    /\ Injective(DIDMethodNetworkV1)
    /\ LookupsAgree(DIDMethodNetwork, id[1], id[2],
                    FindBlockchainForDIDMethodByValue(id[1], id[2]),
                    FindNetworkIDForDIDMethodByValue(id[1], id[2]))
    /\ \A m \in DOMAIN DIDMethodByteV1 \cup {UnregisteredName} :
          LookupsAgree(DIDMethodNetworkV1, m, id[2],
                       FindBlockchainForDIDMethodByValueV1(m, id[2]),
                       FindNetworkIDForDIDMethodByValueV1(m, id[2]))
    /\ (out.op = "decodeDIDPartsFromID" /\ out.err = Nil) =>
          DIDNetworkFlag(out.blockchain, out.networkID)
              \in KeysByValue(DIDMethodNetwork[id[1]], id[2])
    /\ (out.op = "decodeDIDPartsFromIDV1" /\ out.err = Nil) =>
          DIDNetworkFlag(out.blockchain, out.networkID)
              \in KeysByValue(DIDMethodNetworkV1[out.method], id[2])

C4_Witness ==
    /\ out.op = "decodeDIDPartsFromID"
    /\ pc = "done"
    /\ out.err = Nil
    /\ id[1] = DIDMethodIden3
    /\ out.blockchain = Ethereum /\ out.networkID = Goerli

\* C5: unknown-method fallback. On a DID whose method is not a registered one
\* IDFromDID returns no error, whatever the segments of the DID: the ID has the
\* type bytes {0xFF, 0xFF}, a valid checksum and the last 27 bytes of the digest
\* of the DID's text as its genesis, and every call on the DID returns it.
C5_UnknownMethodFallback ==
    (out.op = "IDFromDID" /\ pc # "roundtrip" /\ did.Method \notin RegisteredNames)
    => /\ out.err = Nil
       /\ pc = "fromdid"
       /\ id = out.id
       /\ Len(out.id) = idLn
       /\ SubSeq(out.id, 1, 2) = <<255, 255>>
       /\ CheckChecksum(out.id)
       /\ SubSeq(out.id, 3, 2 + genesisLn)
             = SubSeq(Sha256(DIDString(did)), hashLn - genesisLn + 1, hashLn)
       /\ IDFromDID(did) = {[id |-> out.id, err |-> Nil]}

C5_Witness ==
    /\ out.op = "IDFromDID"
    /\ pc = "fromdid"
    /\ did.Method = UnregisteredName
    /\ Len(did.IDStrings) > 3
    /\ did.IDStrings[Len(did.IDStrings)] = Polygon
    /\ out.err = Nil

\* the type bytes of the other/unknown method
OtherType(i) ==
    \E parts \in decodeDIDPartsFromID(i) :
        parts.err = Nil /\ isUnsupportedDID(parts.method, parts.blockchain, parts.networkID)

IDAccessors == {"MethodFromID", "BlockchainFromID", "NetworkIDFromID"}

\* C6 as stated: on every ID of the other/unknown type ParseDIDFromID and the
\* three accessors return an error wrapping ErrMethodUnknown.
C6_Original ==
    (out.op \in IDAccessors \cup {"ParseDIDFromID"} /\ OtherType(id))
    => ErrorsIs(out.err, ErrMethodUnknown)

\* C6 (amended): IDs of the other/unknown method never reverse to a textual
\* form. On every such ID MethodFromID, BlockchainFromID and NetworkIDFromID
\* return an error wrapping ErrMethodUnknown with their sentinel value, and
\* ParseDIDFromID returns no DID and an error: one wrapping ErrMethodUnknown when
\* the ID's checksum is valid (so for every ID of the unknown-method fallback),
\* the checksum error ErrUnsupportedID when it is not.
C6_OtherNeverReverses ==
    /\ (out.op \in IDAccessors /\ id[1] = 255 /\ id[2] = 255) =>
          /\ ErrorsIs(out.err, ErrMethodUnknown)
          /\ out.val = (CASE out.op = "MethodFromID" -> DIDMethodOther
                          [] out.op = "BlockchainFromID" -> UnknownChain
                          [] out.op = "NetworkIDFromID" -> UnknownNetwork)
    /\ (out.op = "ParseDIDFromID" /\ id[1] = 255 /\ id[2] = 255) =>
          /\ out.did = NoDID
          /\ IF CheckChecksum(id) THEN ErrorsIs(out.err, ErrMethodUnknown)
             ELSE ErrorsIs(out.err, ErrUnsupportedID)
    /\ (out.op = "IDFromDID" /\ pc = "fromdid" /\ did.Method \notin RegisteredNames) =>
          id[1] = 255 /\ id[2] = 255 /\ OtherType(id)

C6_Witness ==
    /\ out.op = "ParseDIDFromID"
    /\ pc = "done"
    /\ did.Method = UnregisteredName
    /\ id = newIDFromUnsupportedDID(did)
    /\ ErrorsIs(out.err, ErrMethodUnknown)

\* the DID's last segment is the text of an ID whose checksum does not match
BadChecksumSegment(d) ==
    /\ Len(d.IDStrings) >= 1
    /\ LET r == IDFromString(d.IDStrings[Len(d.IDStrings)])
       IN  r.err = Nil /\ ~ CheckChecksum(r.id)

\* C7: checksum gate of the DID codec. ParseDIDFromID on an ID whose checksum
\* does not match returns the checksum error and no DID; IDFromDID / Decompose
\* on a DID of a registered method whose last segment is such an ID returns an
\* ErrIncorrectDID / ErrInvalidDID error. The error never is one of decoding
\* the type bytes: it is decided before they are read.
C7_ChecksumGate ==
    /\ (out.op = "ParseDIDFromID" /\ ~ CheckChecksum(id)) =>
          out.did = NoDID /\ out.err = Err(ErrUnsupportedID, "invalid checksum")
    /\ (out.op = "ParseDIDFromIDV1" /\ ~ CheckChecksum(id)) =>
          out.did = NoDID /\ out.err = Err(ErrInvalidDID, "invalid checksum")
    /\ (out.op = "IDFromDID" /\ pc # "roundtrip"
          /\ did.Method \in RegisteredNames /\ BadChecksumSegment(did)) =>
          /\ pc = "done"
          /\ out.err \in {Err(ErrIncorrectDID, "incorrect ID checksum"),
                          Err(ErrIncorrectDID, "unexpected number of ID strings")}
    /\ (out.op \in {"DecomposeV1", "IDFromDIDV1"} /\ pc = "done"
          /\ did.Method \in DOMAIN DIDMethodByteV1 /\ BadChecksumSegment(did)) =>
          out.err \in {Err(ErrInvalidDID, "invalid checksum"),
                       Err(ErrInvalidDID, "too many fields")}

C7_Witness ==
    /\ out.op = "IDFromDID"
    /\ pc = "done"
    /\ did.Method = PolygonIDName
    /\ BadChecksumSegment(did)
    /\ out.err = Err(ErrIncorrectDID, "incorrect ID checksum")

\* C8: an ID failing the checksum is never treated as authoritative by the ID
\* accessors: MethodFromID, BlockchainFromID, NetworkIDFromID and
\* EthAddressFromID return an error on every ID whose checksum does not match.
C8_AccessorsRejectBadChecksum ==
    (out.op \in IDAccessors \cup {"EthAddressFromID"} /\ pc = "done" /\ ~ CheckChecksum(id))
    => out.err # Nil

\* C9: EthAddressFromID is the inverse of GenesisFromEthAddress. On the ID built
\* by NewID from any type and the genesis of an address it returns the address
\* and no error; on an ID with a non-zero byte among the 7 reserved genesis
\* bytes (the leading ones) it returns an error and the zero address.
C9_EthAddressInverse ==
    /\ pc = "recovered" =>
          /\ id = NewID(typ, GenesisFromEthAddress(addr))
          /\ out.err = Nil
          /\ out.val = addr
    /\ (out.op = "EthAddressFromID" /\ \E j \in 3..(2 + reservedLn) : id[j] # 0) =>
          out.err # Nil /\ out.val = Zeros(addrLn)

C9_Witness ==
    /\ pc = "recovered"
    /\ addr[1] # 0 /\ addr[addrLn] # 0
    /\ typ = <<DIDMethodIden3, 33>>
    /\ out.val = addr

\* C10 as stated: the 20 address bytes are the first 20 bytes of the genesis and
\* the 7 bytes after them are zero.
C10_Original ==
    out.op = "GenesisFromEthAddress" =>
        /\ SubSeq(out.genesis, 1, addrLn) = addr
        /\ SubSeq(out.genesis, addrLn + 1, genesisLn) = Zeros(reservedLn)

\* C10 (amended): genesis layout for chain addresses. GenesisFromEthAddress
\* right-aligns the address: the first 7 bytes of the 27-byte genesis are zero
\* and the 20 address bytes occupy the last 20 bytes.
C10_GenesisLayout ==
    out.op = "GenesisFromEthAddress" =>
        /\ Len(out.genesis) = genesisLn
        /\ SubSeq(out.genesis, 1, reservedLn) = Zeros(reservedLn)
        /\ SubSeq(out.genesis, reservedLn + 1, genesisLn) = addr

C10_Witness ==
    /\ out.op = "GenesisFromEthAddress"
    /\ addr[1] # 0
    /\ out.genesis[reservedLn + 1] = addr[1]

\* what a lookup of (blockchain, network) in a method's table gives as the type
\* of the method byte: the empty blockchain stands for ReadOnly
TypeOfEntry(methodByte, table, blockchain, network) ==
    LET flag == DIDNetworkFlag(IF blockchain = NoChain THEN ReadOnly ELSE blockchain,
                               network)
    IN  IF flag \in DOMAIN table
        THEN [typ |-> <<methodByte, table[flag]>>, err |-> Nil]
        ELSE [typ |-> <<0, 0>>, err |-> Err(ErrNetworkNotSupportedForDID, "")]

\* C11: BuildDIDType result. For a registered method and a pair of its table the
\* result is {method byte, table byte}, {0x01, 0x11} for (iden3, polygon, main);
\* NoChain gives what ReadOnly gives; an unregistered method gives
\* ErrDIDMethodNotSupported and a pair absent from the table gives
\* ErrNetworkNotSupportedForDID, both with the zero byte pair.
C11_BuildDIDTypeResult ==
    /\ pc = "built" =>
          /\ [typ |-> out.typ, err |-> out.err]
                = IF req.method \in knownMethods
                  THEN TypeOfEntry(req.method, DIDMethodNetwork[req.method],
                                   req.blockchain, req.network)
                  ELSE [typ |-> <<0, 0>>, err |-> Err(ErrDIDMethodNotSupported, "")]
          /\ req = Request(DIDMethodIden3, Polygon, Main) =>
                out.typ = <<1, 17>> /\ out.err = Nil
          /\ req.blockchain = NoChain =>
                [typ |-> out.typ, err |-> out.err]
                   = BuildDIDType(req.method, ReadOnly, req.network)
    /\ pc = "builtV1" =>
          /\ [typ |-> out.typ, err |-> out.err]
                = IF req.method \in DOMAIN DIDMethodByteV1
                  THEN TypeOfEntry(DIDMethodByteV1[req.method],
                                   DIDMethodNetworkV1[req.method],
                                   req.blockchain, req.network)
                  ELSE [typ |-> <<0, 0>>, err |-> Err(ErrDIDMethodNotSupported, "")]
          /\ req = Request(Iden3Name, Polygon, Main) =>
                out.typ = <<1, 17>> /\ out.err = Nil
          /\ req.blockchain = NoChain =>
                [typ |-> out.typ, err |-> out.err]
                   = BuildDIDTypeV1(req.method, ReadOnly, req.network)

C11_Witness ==
    /\ pc = "built"
    /\ req = Request(DIDMethodPolygonID, NoChain, NoNetwork)
    /\ out.typ = <<2, 0>>
    /\ out.err = Nil

\* IDFromDID / Decompose has accepted the DID of a registered method
Accepted ==
    \/ out.op = "IDFromDID" /\ out.err = Nil /\ did.Method \in RegisteredNames
    \/ out.op \in {"DecomposeV1", "IDFromDIDV1"} /\ out.err = Nil

\* the DIDs ParseDIDFromID can compose from the ID
Composed(i) ==
    IF out.op = "IDFromDID"
    THEN {r.did : r \in {q \in ParseDIDFromID(i) : q.err = Nil}}
    ELSE {r.did : r \in {q \in ParseDIDFromIDV1(i) : q.err = Nil}}

\* the segment lists accepted for an ID: its text alone, or preceded by the
\* decoded blockchain, or by the decoded blockchain and network
SegmentsOf(i, parts) ==
    {<<IDString(i)>>,
     <<parts.blockchain, IDString(i)>>,
     <<parts.blockchain, parts.networkID, IDString(i)>>}

\* C19 as stated: an accepted DID is exactly the one ParseDIDFromID composes
\* from the returned ID.
C19_Original ==
    Accepted => did \in Composed(out.id)

\* C19 (amended): whenever IDFromDID / Decompose succeeds on a DID of a
\* registered method, the method is the one decoded from the returned ID, the
\* last segment is the ID's text, and every segment in front of it equals the
\* decoded value: the segments are the ID's text alone, or the blockchain and
\* the text, or the blockchain, the network (also when it is empty) and the text.
C19_AcceptedSegments ==
    Accepted =>
        IF out.op = "IDFromDID"
        THEN \E parts \in decodeDIDPartsFromID(out.id) :
                /\ parts.err = Nil
                /\ did.Method = DIDMethodString(parts.method)
                /\ did.IDStrings \in SegmentsOf(out.id, parts)
        ELSE \E parts \in decodeDIDPartsFromIDV1(out.id) :
                /\ parts.err = Nil
                /\ did.Method = parts.method
                /\ did.IDStrings \in SegmentsOf(out.id, parts)

C19_Witness ==
    /\ out.op = "IDFromDID"
    /\ pc = "fromdid"
    /\ out.err = Nil
    /\ did.Method = PolygonIDName
    /\ did.IDStrings = <<Polygon, IDString(out.id)>>
    /\ did \notin Composed(out.id)

-----------------------------------------------------------------------------
(* Proof of work (package utils): CheckPoW and the search loop of PoW      *)

\* the increments of the nonce a search is followed for
MaxNonce == 3

\* hash.Bytes()[0:difficulty] on the 32 bytes of a hash: out of range, a panic
CheckPoWPanics(h, d) == d < 0 \/ d > Len(h)

\* the leading zero bits of a byte
Clz8(b) == IF b = 0 THEN 8 ELSE CHOOSE n \in 0..7 : b \div (2 ^ (7 - n)) = 1

LeadingZeroBits(h) ==
    LET k == LeadingCount(h, 0)
    IN  IF k = Len(h) THEN 8 * k ELSE 8 * k + Clz8(h[k + 1])

\* mutant: the difficulty counts bits
CheckPoWBits(h, d) == LeadingZeroBits(h) >= d

\* CheckPoW where it does not panic: the first `difficulty` bytes equal those of
\* the empty array
CheckPoW(h, d) == SubSeq(h, 1, d) = Zeros(d)

\* a failure of json.Marshal
ErrMarshal == "ErrMarshal"

\* mutant: the search stops one byte of difficulty early
PoWSearchingOneLess(h, d) == d > 0 /\ ~ CheckPoW(h, d - 1)

\* the condition of the loop of PoW
PoWSearching(h, d) == ~ CheckPoW(h, d)

\* a hash with z leading zero bytes, then the byte v
HashWith(z, v) ==
    [j \in 1..powHashLn |-> IF j <= z THEN 0 ELSE IF j = z + 1 THEN v ELSE 170]

HashInputs ==
    {Zeros(powHashLn)}
    \cup {HashWith(z, v) : z \in {0, 1, 2, 31}, v \in {1, 128, 255}}

DifficultyInputs == {-1, 0, 1, 2, 3, 8, 9, 16, 31, 32, 33, 256}

\* the hashes a search meets: HashBytes is a function of the serialized data,
\* any function
SearchHashes == {HashWith(0, 255), HashWith(1, 1), HashWith(2, 128)}

PoWInit ==
    /\ pout = None
    /\ data = 0
    /\ \/ /\ ppc = "check"
          /\ phash \in HashInputs
          /\ difficulty \in DifficultyInputs
          /\ hashes = <<>>
       \/ /\ ppc = "pow"
          /\ hashes \in [1..(MaxNonce + 1) -> SearchHashes]
          /\ difficulty \in {0, 1, 2, 3, 33}
          /\ phash = Zeros(powHashLn)
    /\ NotPoWIdle

CallCheckPoW ==
    /\ ppc = "check"
    /\ pout' = IF CheckPoWPanics(phash, difficulty)
               THEN [op |-> "CheckPoW", panic |-> TRUE, val |-> FALSE]
               ELSE [op |-> "CheckPoW", panic |-> FALSE,
                     val |-> CheckPoW(phash, difficulty)]
    /\ ppc' = "done"
    /\ UNCHANGED <<phash, hashes, difficulty, data, notPoW>>

\* PoW up to its loop: json.Marshal(data), which may fail, and HashBytes
PoWStart ==
    /\ ppc = "pow"
    /\ \E marshalled \in BOOLEAN :
          IF marshalled
          THEN /\ phash' = hashes[data + 1]
               /\ ppc' = "loop"
               /\ pout' = pout
          ELSE /\ pout' = [op |-> "PoW", panic |-> FALSE, data |-> "nil",
                           err |-> Err(ErrMarshal, "")]
               /\ ppc' = "done"
               /\ phash' = phash
    /\ UNCHANGED <<hashes, difficulty, data, notPoW>>

\* one turn of the loop: the hash fails the difficulty, IncrementNonce,
\* json.Marshal (which may fail) and HashBytes
PoWIncrementNonce ==
    /\ ppc = "loop"
    /\ ~ CheckPoWPanics(phash, difficulty)
    /\ PoWSearching(phash, difficulty)
    /\ data < MaxNonce
    /\ data' = data + 1
    /\ \E marshalled \in BOOLEAN :
          IF marshalled
          THEN /\ phash' = hashes[data' + 1]
               /\ ppc' = "loop"
               /\ pout' = pout
          ELSE /\ pout' = [op |-> "PoW", panic |-> FALSE, data |-> "nil",
                           err |-> Err(ErrMarshal, "")]
               /\ ppc' = "done"
               /\ phash' = phash
    /\ UNCHANGED <<hashes, difficulty, notPoW>>

\* the loop ends: the hash passes the difficulty, or CheckPoW panics
PoWReturn ==
    /\ ppc = "loop"
    /\ IF CheckPoWPanics(phash, difficulty)
       THEN TRUE
       ELSE ~ PoWSearching(phash, difficulty)
    /\ pout' = IF CheckPoWPanics(phash, difficulty)
               THEN [op |-> "PoW", panic |-> TRUE, data |-> "nil", err |-> Nil]
               ELSE [op |-> "PoW", panic |-> FALSE, data |-> data, err |-> Nil]
    /\ ppc' = "done"
    /\ UNCHANGED <<phash, hashes, difficulty, data, notPoW>>

PoWNext ==
    \/ CallCheckPoW
    \/ PoWStart
    \/ PoWIncrementNonce
    \/ PoWReturn

PoWSpec == PoWInit /\ [][PoWNext]_vars

C18_PoWSearchResult ==
    (pout.op = "PoW" /\ ~ pout.panic /\ pout.err = Nil) =>
        /\ pout.data = data
        /\ data \in 0..MaxNonce
        /\ CheckPoW(hashes[data + 1], difficulty)
        /\ \A k \in 0..(data - 1) : ~ CheckPoW(hashes[k + 1], difficulty)
        /\ CheckPoW(hashes[1], difficulty) => data = 0

C18_Witness ==
    /\ pout.op = "PoW"
    /\ ~ pout.panic /\ pout.err = Nil
    /\ difficulty = 2
    /\ pout.data = 2
    /\ LeadingCount(hashes[2], 0) = 1

-----------------------------------------------------------------------------
(* Timestamp verification (package utils): VerifyTimestamp                 *)

\* a second, in the unit of the clock (10 ns)
Second == 100000000

\* the nanoseconds of time.Unix(int64(timestamp), 10), in the unit of the clock
UnixNsec == 1

\* the seconds the clock is followed for
MaxNow == 8

\* the timestamps and the limits VerifyTimestamp is called with, in seconds
MaxStamp == 8

MaxLimit == 2

\* int(x): the conversion of a float to an integer drops the fraction
Trunc(x, unit) == IF x >= 0 THEN x \div unit ELSE - ((- x) \div unit)

VerifyTimestamp(ts, limit, clock) ==
    LET t == ts * Second + UnixNsec
        elapsed == clock - t
    IN  ~ (Trunc(elapsed, Second) > limit)

TimeInit ==
    /\ now = 0
    /\ timestamp \in 0..MaxStamp
    /\ timelimit \in 0..MaxLimit
    /\ tpc = "rest"
    /\ tout = None
    /\ NotTimeIdle

\* the clock advances: by 10 ns, or by half a second
Tick ==
    /\ tpc = "rest"
    /\ \E d \in {1, Second \div 2} :
          /\ now' = now + d
          /\ now' <= MaxNow * Second
          /\ now' % (Second \div 2) <= 2
    /\ UNCHANGED <<timestamp, timelimit, tpc, tout, notTime>>

CallVerifyTimestamp ==
    /\ tpc = "rest"
    /\ tout' = [op |-> "VerifyTimestamp",
                val |-> VerifyTimestamp(timestamp, timelimit, now)]
    /\ tpc' = "done"
    /\ UNCHANGED <<now, timestamp, timelimit, notTime>>

TimeNext ==
    \/ Tick
    \/ CallVerifyTimestamp

TimeSpec == TimeInit /\ [][TimeNext]_vars

\* the age of the timestamp at the clock, in the unit of the clock
Age == now - timestamp * Second

\* C13: timestamp window. VerifyTimestamp returns false for every timestamp more
\* than timelimit seconds in the past or more than timelimit seconds in the
\* future, and true when the timestamp's age is between 0 and timelimit seconds.
C13_TimestampWindow ==
    tout.op = "VerifyTimestamp" =>
        /\ Age > timelimit * Second => tout.val = FALSE
        /\ - Age > timelimit * Second => tout.val = FALSE
        /\ (Age >= 0 /\ Age <= timelimit * Second) => tout.val = TRUE

\* what the code does: a timestamp is refused exactly when its age, less 10 ns
\* and with the fraction of a second dropped, exceeds the limit; no timestamp
\* of the future is refused
C13_CodeBehaviour ==
    tout.op = "VerifyTimestamp" =>
        /\ tout.val = (Age - UnixNsec < (timelimit + 1) * Second)
        /\ Age <= 0 => tout.val = TRUE

C13_FutureAccepted ==
    /\ tout.op = "VerifyTimestamp"
    /\ - Age > timelimit * Second
    /\ tout.val = TRUE

-----------------------------------------------------------------------------
(* The nonce store (NonceDb) and its callers                               *)

\* the nonces the generator can draw
MaxNonces == 2

Nonces == 1..MaxNonces

\* the seconds the clock of the store is followed for
MaxTime == 2

\* the lifetimes a challenge is issued with, in seconds
Lifetimes == {1, 2}

Origin == "example.com"

UnknownNonce == "UnknownNonce"

Expired == "Expired"

AlreadyConsumed == "AlreadyConsumed"

Ok == "ok"

\* the entry of a nonce in the store
EntryOf(st, n) == CHOOSE e \in st : e.nonce = n

\* IssueChallenge: stores {nonce, origin, expiresAt = now + ttl}
IssueChallenge(st, n, origin, ttl, t) ==
    st \cup {[nonce |-> n, issuedTo |-> origin, expiresAt |-> t + ttl]}

\* mutant: the check without the delete
ConsumeChallengeKeepsEntry(st, n, t, absent) ==
    IF \A e \in st : e.nonce # n
    THEN [store |-> st, res |-> absent]
    ELSE IF t > EntryOf(st, n).expiresAt
         THEN [store |-> st \ {EntryOf(st, n)}, res |-> Expired]
         ELSE [store |-> st, res |-> Ok]

\* ConsumeChallenge: one atomic check-and-delete. A nonce without an entry is
\* refused (as unknown or as already consumed: the store keeps no trace of a
\* deleted entry); an entry past its expiry is deleted and refused
ConsumeChallenge(st, n, t, absent) ==
    IF \A e \in st : e.nonce # n
    THEN [store |-> st, res |-> absent]
    ELSE IF t > EntryOf(st, n).expiresAt
         THEN [store |-> st \ {EntryOf(st, n)}, res |-> Expired]
         ELSE [store |-> st \ {EntryOf(st, n)}, res |-> Ok]

\* NewNonceDb: an empty store
NonceInit ==
    /\ store = {}
    /\ issued = {}
    /\ ntime = 0
    /\ calls = [c \in Callers |-> NoCall]
    /\ NotNonceIdle

\* a challenge is issued, with a nonce never drawn before
Issue ==
    /\ \E n \in Nonces \ issued, ttl \in Lifetimes :
          /\ store' = IssueChallenge(store, n, Origin, ttl, ntime)
          /\ issued' = issued \cup {n}
    /\ UNCHANGED <<ntime, calls, notNonce>>

\* the clock of the store advances by a second
NonceTick ==
    /\ ntime < MaxTime
    /\ ntime' = ntime + 1
    /\ UNCHANGED <<store, issued, calls, notNonce>>

\* a caller presents a nonce: the call has begun, the store is not yet reached
BeginConsume(c) ==
    /\ calls[c].pc = "rest"
    /\ \E n \in Nonces :
          calls' = [calls EXCEPT ![c] = [pc |-> "called", nonce |-> n]]
    /\ UNCHANGED <<store, issued, ntime, notNonce>>

\* the calls on the nonce that returned with success
Successes(n) ==
    {c \in Callers : /\ calls[c].pc = "returned"
                     /\ calls[c].nonce = n
                     /\ calls[c].res = Ok}

\* the call of a caller reaches the store and returns; the call keeps whether
\* another call on its nonce was under way, and whether one had succeeded
Consume(c) ==
    /\ calls[c].pc = "called"
    /\ \E absent \in {UnknownNonce, AlreadyConsumed} :
          LET n == calls[c].nonce
              r == ConsumeChallenge(store, n, ntime, absent)
              competing == \E o \in Callers \ {c} :
                               calls[o].pc = "called" /\ calls[o].nonce = n
          IN  /\ store' = r.store
              /\ calls' = [calls EXCEPT ![c] =
                              [pc |-> "returned", nonce |-> n, res |-> r.res,
                               competing |-> competing,
                               later |-> Successes(n) # {}]]
    /\ UNCHANGED <<issued, ntime, notNonce>>

NonceNext ==
    \/ Issue
    \/ NonceTick
    \/ \E c \in Callers : BeginConsume(c)
    \/ \E c \in Callers : Consume(c)

NonceSpec == NonceInit /\ [][NonceNext]_vars

\* C14: nonce single use. Over any interleaving of ConsumeChallenge calls on an
\* issued nonce, sequential or concurrent, at most one call succeeds; every
\* call returning after it fails with AlreadyConsumed or UnknownNonce, and the
\* successful call removes the entry from the store.
C14_NonceSingleUse ==
    \A n \in Nonces :
        /\ Cardinality(Successes(n)) <= 1
        /\ Successes(n) # {} =>
              /\ n \in issued
              /\ \A e \in store : e.nonce # n
        /\ \A c \in Callers :
              (calls[c].pc = "returned" /\ calls[c].nonce = n /\ calls[c].later)
                  => calls[c].res \in {AlreadyConsumed, UnknownNonce}

C14_Witness ==
    \E c, o \in Callers :
        /\ calls[c].pc = "returned" /\ calls[o].pc = "returned"
        /\ calls[c].nonce = calls[o].nonce
        /\ calls[c].res = Ok
        /\ calls[c].competing
        /\ calls[o].later
        /\ calls[o].res = AlreadyConsumed

-----------------------------------------------------------------------------
(* The ethereum client (package eth): CallAuth, Deploy, WaitReceipt        *)

ErrAccountNil == "ErrAccountNil"

ErrReceiptStatusFailed == "ErrReceiptStatusFailed"

ErrReceiptNotRecieved == "ErrReceiptNotRecieved"

\* the errors of the calls made outside the client
ErrSuggestGasPrice == "ErrSuggestGasPrice"

ErrNewKeyStoreTransactor == "ErrNewKeyStoreTransactor"

ErrFn == "ErrFn"

ErrTransactionReceipt == "ErrTransactionReceipt"

errStrDeploy == "deployment of %s failed: %w"

errStrWaitReceipt == "wait receipt of %s deploy failed: %w"

\* fmt.Errorf(format, name, err) with %w: the error wrapped stays recognisable
Wrap(format, e) == Err(e.is, format)

\* the values of ReceiptTimeout (an exported field; NewClient sets 60 s, 300
\* polling intervals), in polling intervals
MaxTimeout == 4

Timeouts == 0..MaxTimeout

ReceiptStatusSuccessful == "successful"

ReceiptStatusFailed == "failed"

\* mutant: the account is not looked at
AccountNeverNil(a) == FALSE

\* CallAuth: c.account == nil
AccountNil(a) == a = NilPtr

\* mutant: the address is kept whatever the deploy function returned
DeployFnKeepsAddress(cd, address, t, e) ==
    IF e # Nil
    THEN [data |-> [cd EXCEPT !.Address = address], tx |-> NilPtr, err |-> e]
    ELSE [data |-> [cd EXCEPT !.Address = address], tx |-> t, err |-> Nil]

\* the function Deploy hands to CallAuth, on what fn returned
DeployFn(cd, address, t, e) ==
    IF e # Nil
    THEN [data |-> cd, tx |-> NilPtr, err |-> e]
    ELSE [data |-> [cd EXCEPT !.Address = address], tx |-> t, err |-> Nil]

\* mutant: polling goes on until the timeout
KeepPollingToTimeout(r, elapsed, timeout) == elapsed < timeout

\* the condition of the loop of WaitReceipt
KeepPolling(r, elapsed, timeout) == r = NilPtr /\ elapsed < timeout

\* what WaitReceipt returns after its loop
WaitResult(r, e) ==
    IF r # NilPtr /\ r = ReceiptStatusFailed
    THEN [receipt |-> r, err |-> Err(ErrReceiptStatusFailed, "")]
    ELSE IF r = NilPtr
         THEN [receipt |-> r, err |-> Err(ErrReceiptNotRecieved, "")]
         ELSE [receipt |-> r, err |-> e]

\* NewClient with any account, ReceiptTimeout possibly reassigned, and one of
\* CallAuth, Deploy, WaitReceipt called
ClientInit ==
    /\ account \in {NilPtr, "account"}
    /\ ReceiptTimeout \in Timeouts
    /\ ccall \in {"CallAuth", "Deploy", "WaitReceipt"}
    /\ cpc = IF ccall = "WaitReceipt" THEN "WaitReceipt" ELSE "CallAuth"
    /\ tx \in IF ccall = "WaitReceipt" THEN {NilPtr, "tx"} ELSE {NilPtr}
    /\ contractData = NoContractData
    /\ receipt = NilPtr /\ werr = Nil /\ since = 0
    /\ made = NoCalls
    /\ cout = None /\ wout = None /\ dout = None
    /\ NotClientIdle

\* CallAuth returns (t, e), with cd the ContractData its function left; Deploy
\* goes on to its own return, or to tx.Hash() and WaitReceipt
CallAuthReturns(t, e, cd) ==
    /\ cout' = [tx |-> t, err |-> e]
    /\ IF ccall = "CallAuth"
       THEN /\ cpc' = "done"
            /\ contractData' = cd /\ tx' = tx /\ dout' = dout
       ELSE IF e # Nil
            THEN /\ dout' = [data |-> cd, err |-> Wrap(errStrDeploy, e)]
                 /\ cpc' = "done"
                 /\ contractData' = cd /\ tx' = tx
            ELSE IF t = NilPtr
                 THEN /\ cpc' = "panic"
                      /\ contractData' = cd /\ tx' = t /\ dout' = dout
                 ELSE /\ contractData' = [cd EXCEPT !.Tx = t]
                      /\ tx' = t
                      /\ cpc' = "WaitReceipt"
                      /\ dout' = dout

\* CallAuth: the test of the account
CheckAccount ==
    /\ cpc = "CallAuth"
    /\ IF AccountNil(account)
       THEN CallAuthReturns(NilPtr, Err(ErrAccountNil, ""), contractData)
       ELSE /\ cpc' = "SuggestGasPrice"
            /\ UNCHANGED <<contractData, tx, cout, dout>>
    /\ UNCHANGED <<account, ReceiptTimeout, ccall, receipt, werr, since, made,
                   wout, notClient>>

\* CallAuth: c.client.SuggestGasPrice
SuggestGasPrice ==
    /\ cpc = "SuggestGasPrice"
    /\ made' = [made EXCEPT !.SuggestGasPrice = @ + 1]
    /\ \E failed \in BOOLEAN :
          IF failed
          THEN CallAuthReturns(NilPtr, Err(ErrSuggestGasPrice, ""), contractData)
          ELSE /\ cpc' = "NewKeyStoreTransactor"
               /\ UNCHANGED <<contractData, tx, cout, dout>>
    /\ UNCHANGED <<account, ReceiptTimeout, ccall, receipt, werr, since, wout,
                   notClient>>

\* CallAuth: bind.NewKeyStoreTransactor
NewKeyStoreTransactor ==
    /\ cpc = "NewKeyStoreTransactor"
    /\ made' = [made EXCEPT !.NewKeyStoreTransactor = @ + 1]
    /\ \E failed \in BOOLEAN :
          IF failed
          THEN CallAuthReturns(NilPtr, Err(ErrNewKeyStoreTransactor, ""),
                               contractData)
          ELSE /\ cpc' = "fn"
               /\ UNCHANGED <<contractData, tx, cout, dout>>
    /\ UNCHANGED <<account, ReceiptTimeout, ccall, receipt, werr, since, wout,
                   notClient>>

\* CallAuth: fn(c.client, auth), which returns any transaction and any error,
\* and the return of CallAuth
CallFn ==
    /\ cpc = "fn"
    /\ made' = [made EXCEPT !.fn = @ + 1]
    /\ \E t \in {NilPtr, "tx"}, e \in {Nil, Err(ErrFn, "")} :
          IF ccall = "Deploy"
          THEN LET r == DeployFn(contractData, "address", t, e)
               IN  CallAuthReturns(r.tx, r.err, r.data)
          ELSE CallAuthReturns(t, e, contractData)
    /\ UNCHANGED <<account, ReceiptTimeout, ccall, receipt, werr, since, wout,
                   notClient>>

\* WaitReceipt up to its loop: tx.Hash(), a panic on a nil transaction
WaitStart ==
    /\ cpc = "WaitReceipt"
    /\ made' = [made EXCEPT !.WaitReceipt = @ + 1]
    /\ cpc' = IF tx = NilPtr THEN "panic" ELSE "loop"
    /\ receipt' = NilPtr /\ werr' = Nil /\ since' = 0
    /\ UNCHANGED <<account, ReceiptTimeout, ccall, contractData, tx, cout,
                   wout, dout, notClient>>

\* one turn of the loop: the poll, which takes some time and returns any
\* receipt and any error, and the sleep of at least one interval without a
\* receipt
WaitPoll ==
    /\ cpc = "loop"
    /\ KeepPolling(receipt, since, ReceiptTimeout)
    /\ made' = [made EXCEPT !.TransactionReceipt = @ + 1]
    /\ \E r \in {NilPtr, ReceiptStatusSuccessful, ReceiptStatusFailed},
          e \in {Nil, Err(ErrTransactionReceipt, "")},
          took \in 0..1, slept \in 1..2 :
          /\ receipt' = r
          /\ werr' = e
          /\ since' = since + took + (IF r = NilPtr THEN slept ELSE 0)
    /\ UNCHANGED <<account, ReceiptTimeout, ccall, cpc, contractData, tx, cout,
                   wout, dout, notClient>>

\* the loop ends and WaitReceipt returns; Deploy returns after it
WaitReturn ==
    /\ cpc = "loop"
    /\ ~ KeepPolling(receipt, since, ReceiptTimeout)
    /\ wout' = WaitResult(receipt, werr)
    /\ cpc' = "done"
    /\ IF ccall = "Deploy"
       THEN IF wout'.err # Nil
            THEN /\ dout' = [data |-> contractData,
                             err |-> Wrap(errStrWaitReceipt, wout'.err)]
                 /\ contractData' = contractData
            ELSE /\ contractData' = [contractData EXCEPT !.Receipt = wout'.receipt]
                 /\ dout' = [data |-> contractData', err |-> Nil]
       ELSE UNCHANGED <<contractData, dout>>
    /\ UNCHANGED <<account, ReceiptTimeout, ccall, tx, receipt, werr, since,
                   made, cout, notClient>>

ClientNext ==
    \/ CheckAccount
    \/ SuggestGasPrice
    \/ NewKeyStoreTransactor
    \/ CallFn
    \/ WaitStart
    \/ WaitPoll
    \/ WaitReturn

ClientSpec == ClientInit /\ [][ClientNext]_vars

\* every poll returns and time.Sleep returns: a turn of the loop that can be
\* taken is taken, and so is the return after the loop
ClientLiveSpec ==
    ClientSpec /\ WF_vars(WaitPoll) /\ WF_vars(WaitReturn)

\* C15: CallAuth on a Client whose account is nil returns (nil, ErrAccountNil)
\* before any other step: the gas price is not queried, no transactor is
\* created and fn is never invoked; Deploy on such a client fails without
\* calling the deploy function or WaitReceipt.
C15_AccountNil ==
    (account = NilPtr /\ ccall \in {"CallAuth", "Deploy"}) =>
        /\ made = NoCalls
        /\ cpc \in {"CallAuth", "done"}
        /\ cpc = "done" =>
              /\ cout = [tx |-> NilPtr, err |-> Err(ErrAccountNil, "")]
              /\ ccall = "Deploy" =>
                    /\ dout # None
                    /\ ErrorsIs(dout.err, ErrAccountNil)
                    /\ dout.data = NoContractData

C15_Witness ==
    /\ account = NilPtr
    /\ ccall = "Deploy"
    /\ cpc = "done"
    /\ ErrorsIs(dout.err, ErrAccountNil)
    /\ made.fn = 0 /\ made.WaitReceipt = 0

C17_DeployContractData ==
    ccall = "Deploy" =>
        /\ made.WaitReceipt > 0 =>
              /\ cout # None
              /\ cout.err = Nil
              /\ cout.tx # NilPtr
        /\ dout # None =>
              /\ cout.err # Nil =>
                    /\ dout.err # Nil
                    /\ dout.data = NoContractData
              /\ (cout.err = Nil /\ dout.err # Nil) =>
                    /\ wout # None /\ wout.err # Nil
                    /\ dout.data = [Address |-> "address", Tx |-> cout.tx,
                                    Receipt |-> NilPtr]
              /\ dout.data.Receipt # NilPtr <=> dout.err = Nil
              /\ dout.err = Nil =>
                    dout.data = [Address |-> "address", Tx |-> cout.tx,
                                 Receipt |-> wout.receipt]

C17_Witness ==
    /\ ccall = "Deploy"
    /\ dout # None
    /\ ErrorsIs(dout.err, ErrReceiptStatusFailed)
    /\ dout.data = [Address |-> "address", Tx |-> "tx", Receipt |-> NilPtr]

====
